---- MODULE Spec2Model ----
(***************************************************************************)
(* Overtone Analyzer: the analysis pipeline of overtone_analyzer.py        *)
(* (main, read_audio, compute_psd, summarize_bands, estimate_fundamental)  *)
(* and the two comparison scripts, as state machines.                      *)
(*                                                                         *)
(* Numbers.  Frequencies are integers (Hz).  A power sample is a natural   *)
(* number, or NaN.  Python floats that are computed from them (energy,     *)
(* total, pct) are exact values num/den * 10^exp carried as records, with  *)
(* a nan flag; den = 0 stands for a division by zero.                      *)
(***************************************************************************)
EXTENDS Integers, Sequences, FiniteSets, TLC

VARIABLES
    pc,           \* position of the running program
    path_exists,  \* os.path.exists(path) for main's input file
    attempts,     \* read_audio: <<strategy, outcome>> in the order tried
    err,          \* the error the program ended with, <<>> when none
    y,            \* decoded signal: [n |-> length, kind |-> "zero"|"const"|"varying"]
    sr,           \* sample rate
    psd_path,     \* which estimator produced the spectrum
    f,            \* spectrum frequencies
    Pxx,          \* spectrum power
    args,         \* [air_lo, air_hi]
    band_rows,    \* summarize_bands: rows
    total,        \* summarize_bands: total
    win,          \* estimate_fundamental: <<lo, hi>>
    f0,           \* estimate_fundamental: <<>> for None, <<hz>> for a float
    tool,         \* comparison script being run
    files,        \* comparison script: state of each expected input file
    k,            \* comparison script: position in FILES
    labels,       \* compare_bands: labels gathered
    missing,      \* compare_bands: missing file names gathered
    plotted_any,  \* compare_spectra: flag
    backup_rows,  \* overtone_analyzer_backup.summarize_bands: rows
    backup_total  \* overtone_analyzer_backup.summarize_bands: total

vars == <<pc, path_exists, attempts, err, y, sr, psd_path, f, Pxx, args,
          band_rows, total, win, f0, tool, files, k, labels, missing, plotted_any,
          backup_rows, backup_total>>

loadVars == <<path_exists, attempts, err, y, sr>>
specVars == <<psd_path, f, Pxx>>
cmpVars  == <<tool, files, k, labels, missing, plotted_any>>
backupVars == <<backup_rows, backup_total>>

----------------------------------------------------------------------------
(* Bounds of the model *)

MaxBins == 4      \* bins of a spectrum handed to the analyzer functions
MaxPow == 2       \* largest power value of a bin
MaxN == 3         \* longest decoded signal, in samples

(* Program constants *)

BassLo == 60
BassHi == 250
FormantLo == 400
FormantHi == 1500
LowCutoff == 20
EpsExp == 12      \* total = 1e-12
F0Lo == 60
F0Hi == 300
NpersegMax == 8192
NpersegMin == 256

(* Frequencies a spectrum handed to the analyzer functions may hold *)
Grid == {10, 60, 120, 300, 400, 1500, 3000, 5000}

(* Overtones band edges the caller may choose: default, the former fixed
   edges, edges adjacent to Formant's upper edge, and a band from 0 Hz that
   ends at Formant's lower edge and overlaps Bass *)
AirEdges == { <<2000, 8000>>, <<3000, 8000>>, <<1500, 8000>>, <<0, 400>> }

(* Pitch-search windows: the default, and one from 0 Hz *)
PitchWindows == { <<F0Lo, F0Hi>>, <<0, 120>> }

SampleRates == {240, 16000}

----------------------------------------------------------------------------
(* Floats *)

NaN == 0 - 1     \* a power sample that is not a number (samples are >= 0 otherwise)

Num(n)  == [nan |-> FALSE, num |-> n, den |-> 1, exp |-> 0]
Half(n) == [nan |-> FALSE, num |-> n, den |-> 2, exp |-> 0]
NaNf    == [nan |-> TRUE,  num |-> 0, den |-> 1, exp |-> 0]
Eps     == [nan |-> FALSE, num |-> 1, den |-> 1, exp |-> 0 - EpsExp]

FMul100(a) == IF a.nan THEN a ELSE [a EXCEPT !.num = 100 * @]
FDiv(a, b) == IF a.nan \/ b.nan THEN NaNf
              ELSE [nan |-> FALSE, num |-> a.num * b.den, den |-> a.den * b.num,
                    exp |-> a.exp - b.exp]
LeZero(a)  == ~a.nan /\ a.num <= 0
Finite(a)  == ~a.nan /\ a.den # 0

(* a * 10^e <= b, for a >= 0 and e >= 0, without forming 10^e *)
RECURSIVE ScaledLeq(_, _, _)
ScaledLeq(a, e, b) ==
    IF e = 0 THEN a <= b
    ELSE IF a > b THEN FALSE
    ELSE ScaledLeq(a * 10, e - 1, b)

----------------------------------------------------------------------------
(* Sequences *)

RECURSIVE PickFrom(_, _, _)
PickFrom(s, idx, i) ==
    IF i > Len(s) THEN <<>>
    ELSE (IF i \in idx THEN <<s[i]>> ELSE <<>>) \o PickFrom(s, idx, i + 1)

(* s[idx] for an index array idx in increasing order, as np.where returns it *)
Pick(s, idx) == PickFrom(s, idx, 1)

RECURSIVE SortedSeq(_)
SortedSeq(S) ==
    IF S = {} THEN <<>>
    ELSE LET m == CHOOSE x \in S : \A z \in S : x <= z
         IN <<m>> \o SortedSeq(S \ {m})

RECURSIVE TrapSum(_, _, _)
TrapSum(ys, xs, i) ==
    IF i >= Len(xs) THEN 0
    ELSE (xs[i + 1] - xs[i]) * (ys[i] + ys[i + 1]) + TrapSum(ys, xs, i + 1)

(* np.trapezoid(ys, xs): sum of d * (y[i] + y[i+1]) / 2; fewer than two
   points sum to 0.0; a NaN in any term makes the sum NaN *)
Trapezoid(ys, xs) ==
    IF Len(xs) < 2 THEN Half(0)
    ELSE IF \E i \in 1..Len(ys) : ys[i] = NaN THEN NaNf
    ELSE Half(TrapSum(ys, xs, 1))

----------------------------------------------------------------------------
(* BandAnalyzer: band_energy, summarize_bands, estimate_fundamental *)

(* band_energy with the upper edge taken inclusive *)
BandIdxClosed(freqs, f_lo, f_hi) ==
    { i \in DOMAIN freqs : freqs[i] >= f_lo /\ freqs[i] <= f_hi }

(* np.where((f >= f_lo) & (f < f_hi))[0] *)
BandIdx(freqs, f_lo, f_hi) ==
    { i \in DOMAIN freqs : freqs[i] >= f_lo /\ freqs[i] < f_hi }

band_energy(freqs, pw, f_lo, f_hi) ==
    LET idx == BandIdx(freqs, f_lo, f_hi)
    IN IF idx = {} THEN Half(0)
       ELSE Trapezoid(Pick(pw, idx), Pick(freqs, idx))

(* a label that prints the low edge in Hz whatever its size *)
OvertonesNameHz(air_lo, air_hi) ==
    <<"Overtones", air_lo, air_hi \div 1000, "kHz">>

(* the label of the overtones band; int() of a non-negative float truncates *)
OvertonesName(air_lo, air_hi) ==
    IF air_lo >= 1000
    THEN <<"Overtones", air_lo \div 1000, air_hi \div 1000, "kHz">>
    ELSE <<"Overtones", air_lo, air_hi \div 1000, "kHz">>

BandDefs(air_lo, air_hi) ==
    << <<<<"Bass", 60, 250, "Hz">>, BassLo, BassHi>>,
       <<<<"Formant", 400, 1500, "Hz">>, FormantLo, FormantHi>>,
       <<OvertonesName(air_lo, air_hi), air_lo, air_hi>> >>

(* total = float(np.trapezoid(Pxx[mask], f[mask])); if total <= 0: total = 1e-12 *)
TotalPower(freqs, pw) ==
    LET mask == { i \in DOMAIN freqs : freqs[i] >= LowCutoff }
        t    == Trapezoid(Pick(pw, mask), Pick(freqs, mask))
    IN IF LeZero(t) THEN Eps ELSE t

BandRow(freqs, pw, b, tot) ==
    LET e == band_energy(freqs, pw, b[2], b[3])
    IN [band |-> b[1], lo_hz |-> b[2], hi_hz |-> b[3], energy |-> e,
        pct |-> FDiv(FMul100(e), tot)]

summarize_bands(freqs, pw, air_lo, air_hi) ==
    LET tot   == TotalPower(freqs, pw)
        bands == BandDefs(air_lo, air_hi)
    IN [rows  |-> [j \in DOMAIN bands |-> BandRow(freqs, pw, bands[j], tot)],
        total |-> tot,
        bands |-> bands]

(* overtone_analyzer_backup.py: the former band_energy and summarize_bands,
   with np.trapz (the former name of np.trapezoid) and fixed overtones edges *)
band_energy_backup(freqs, pw, f_lo, f_hi) ==
    LET idx == { i \in DOMAIN freqs : freqs[i] >= f_lo /\ freqs[i] < f_hi }
    IN IF idx = {} THEN Half(0)
       ELSE Trapezoid(Pick(pw, idx), Pick(freqs, idx))

BandDefsBackup ==
    << <<<<"Bass", 60, 250, "Hz">>, 60, 250>>,
       <<<<"Formant", 400, 1500, "Hz">>, 400, 1500>>,
       <<<<"Overtones", 3, 8, "kHz">>, 3000, 8000>> >>

TotalPowerBackup(freqs, pw) ==
    LET mask == { i \in DOMAIN freqs : freqs[i] >= 20 }
        t    == Trapezoid(Pick(pw, mask), Pick(freqs, mask))
    IN IF LeZero(t) THEN Eps ELSE t

summarize_bands_backup(freqs, pw) ==
    LET tot == TotalPowerBackup(freqs, pw)
    IN [rows  |-> [j \in DOMAIN BandDefsBackup |->
                    LET b == BandDefsBackup[j]
                        e == band_energy_backup(freqs, pw, b[2], b[3])
                    IN [band |-> b[1], lo_hz |-> b[2], hi_hz |-> b[3], energy |-> e,
                        pct |-> FDiv(FMul100(e), tot)]],
        total |-> tot]

(* the pitch window with the upper edge taken exclusive *)
WindowIdxOpen(freqs, lo, hi) ==
    { i \in DOMAIN freqs : freqs[i] >= lo /\ freqs[i] < hi }

(* np.where((f >= lo) & (f <= hi))[0] *)
WindowIdx(freqs, lo, hi) ==
    { i \in DOMAIN freqs : freqs[i] >= lo /\ freqs[i] <= hi }

(* sub_p.max(): NaN when any element is NaN *)
SeqMax(s) ==
    IF \E i \in DOMAIN s : s[i] = NaN THEN NaN
    ELSE CHOOSE m \in { s[i] : i \in DOMAIN s } : \A i \in DOMAIN s : s[i] <= m

(* np.argmax(sub_p): the first maximal element, the first NaN when there is one *)
ArgMax(s) ==
    CHOOSE i \in DOMAIN s : s[i] = SeqMax(s) /\ \A j \in 1..(i - 1) : s[j] # SeqMax(s)

(* an estimate that answers 0.0 where there is nothing to pick *)
estimate_fundamental_sentinel(freqs, pw, lo, hi) ==
    LET idx == WindowIdx(freqs, lo, hi)
        sub_f == Pick(freqs, idx)
        sub_p == Pick(pw, idx)
    IN IF idx = {} THEN <<0>>
       ELSE IF SeqMax(sub_p) # NaN /\ SeqMax(sub_p) <= 0 THEN <<0>>
       ELSE <<sub_f[ArgMax(sub_p)]>>

(* None is <<>>, a float x is <<x>> *)
estimate_fundamental(freqs, pw, lo, hi) ==
    LET idx == WindowIdx(freqs, lo, hi)
        sub_f == Pick(freqs, idx)
        sub_p == Pick(pw, idx)
    IN IF idx = {} THEN <<>>
       ELSE IF SeqMax(sub_p) # NaN /\ SeqMax(sub_p) <= 0 THEN <<>>
       ELSE <<sub_f[ArgMax(sub_p)]>>

----------------------------------------------------------------------------
(* AudioLoader: read_audio *)

Strategies == <<"soundfile", "scipy", "wave">>

(* what a strategy's try block can raise *)
Causes(s) == IF s = "wave" THEN {"wave.Error", "UnsupportedWidth"}
             ELSE {"ImportError", "DecodeError"}

(* decoded signals: the length, and whether the samples are all zero, all
   one non-zero constant, or varying *)
Signals == { sig \in [n : 0..MaxN, kind : {"zero", "const", "varying"}] :
               /\ sig.n = 0 => sig.kind = "zero"
               /\ sig.n = 1 => sig.kind # "varying" }

NoSignal == [n |-> 0, kind |-> "zero"]
NoError  == [type |-> "none", path |-> FALSE, causes |-> <<>>]

Failed(s, c)     == [strategy |-> s, ok |-> FALSE, cause |-> c, y |-> NoSignal, sr |-> 0]
Decoded(s, d, r) == [strategy |-> s, ok |-> TRUE, cause |-> "none", y |-> d, sr |-> r]

(* a strategy's try block returns: read_audio returns (y, sr) *)
Return(s, d, r) ==
    /\ attempts' = Append(attempts, Decoded(s, d, r))
    /\ y' = d
    /\ sr' = r
    /\ pc' = "compute_psd"
    /\ err' = err

(* except Exception: pass *)
Pass(s, c, next) ==
    /\ attempts' = Append(attempts, Failed(s, c))
    /\ pc' = next
    /\ UNCHANGED <<y, sr, err>>

(* an error that names the path alone *)
UnreadableAudioBare(history, c) ==
    [type |-> "RuntimeError", path |-> TRUE, causes |-> <<>>]

(* RuntimeError(f"Could not read audio file '{path}'. ... Error: {e}"), raised
   in the third except block: e is the third strategy's exception *)
UnreadableAudio(history, c) ==
    [type |-> "RuntimeError", path |-> TRUE, causes |-> << <<"wave", c>> >>]

(* soundfile failing hands over to the wave block *)
TrySoundfileSkip ==
    /\ pc = "read_soundfile"
    /\ \/ \E d \in Signals, r \in SampleRates : Return("soundfile", d, r)
       \/ \E c \in Causes("soundfile") : Pass("soundfile", c, "read_wave")
    /\ UNCHANGED <<path_exists, specVars, args, band_rows, total, win, f0, cmpVars, backupVars>>

TrySoundfile ==
    /\ pc = "read_soundfile"
    /\ \/ \E d \in Signals, r \in SampleRates : Return("soundfile", d, r)
       \/ \E c \in Causes("soundfile") : Pass("soundfile", c, "read_scipy")
    /\ UNCHANGED <<path_exists, specVars, args, band_rows, total, win, f0, cmpVars, backupVars>>

TryScipy ==
    /\ pc = "read_scipy"
    /\ \/ \E d \in Signals, r \in SampleRates : Return("scipy", d, r)
       \/ \E c \in Causes("scipy") : Pass("scipy", c, "read_wave")
    /\ UNCHANGED <<path_exists, specVars, args, band_rows, total, win, f0, cmpVars, backupVars>>

TryWave ==
    /\ pc = "read_wave"
    /\ \/ \E d \in Signals, r \in SampleRates : Return("wave", d, r)
       \/ \E c \in Causes("wave") :
            /\ err' = UnreadableAudio(attempts, c)
            /\ attempts' = Append(attempts, Failed("wave", c))
            /\ pc' = "raised"
            /\ UNCHANGED <<y, sr>>
    /\ UNCHANGED <<path_exists, specVars, args, band_rows, total, win, f0, cmpVars, backupVars>>

----------------------------------------------------------------------------
(* main, up to read_audio *)

FileNotFound == [type |-> "SystemExit", path |-> TRUE, causes |-> <<>>]

(* main with no os.path.exists test *)
CheckPathUnchecked ==
    /\ pc = "main"
    /\ pc' = "read_soundfile"
    /\ UNCHANGED <<loadVars, specVars, args, band_rows, total, win, f0, cmpVars, backupVars>>

(* if not os.path.exists(path): print(...); raise SystemExit(1) *)
CheckPath ==
    /\ pc = "main"
    /\ IF ~path_exists
       THEN pc' = "exit" /\ err' = FileNotFound
       ELSE pc' = "read_soundfile" /\ err' = err
    /\ UNCHANGED <<path_exists, attempts, y, sr, specVars, args, band_rows, total,
                   win, f0, cmpVars, backupVars>>

----------------------------------------------------------------------------
(* SpectrumEstimator: compute_psd *)

(* y = y - np.mean(y): a constant signal becomes all zero *)
RemoveDC(sig) == [sig EXCEPT !.kind = IF @ = "const" THEN "zero" ELSE @]

Min(a, b) == IF a < b THEN a ELSE b
Max(a, b) == IF a > b THEN a ELSE b

(* nperseg = max(min(len(y), 8192), 256) *)
Nperseg(n) == Max(Min(n, NpersegMax), NpersegMin)

(* frequencies of a one-sided spectrum of m points at rate r:
   np.fft.rfftfreq(m, d=1.0/r) *)
RfftFreq(m, r) == [j \in 1..((m \div 2) + 1) |-> ((j - 1) * r) \div m]

(* welch's frequency axis: a segment no longer than the signal; nothing for
   an empty signal *)
WelchFreqs(n, r) == IF n = 0 THEN <<>> ELSE RfftFreq(Min(Nperseg(n), n), r)

(* n_fft = 1; while n_fft < n: n_fft <<= 1 *)
RECURSIVE NextPow2From(_, _)
NextPow2From(m, n) == IF m < n THEN NextPow2From(2 * m, n) ELSE m
NFft(n) == NextPow2From(1, n)

(* np.sum(np.hanning(n)**2) = 0: hanning(0) is empty and hanning(2) is [0, 0];
   hanning(1) is [1] and from n = 3 on an inner point is positive *)
WinSqSumIsZero(n) == n = 0 \/ n = 2

(* power values a spectrum of the signal may hold, per bin *)
PowerValues(sig) == IF sig.kind = "zero" THEN {0} ELSE 0..MaxPow

(* the fallback: Pxx = |rfft(y * win)|^2 / (sum(win^2) * sr); where the
   window is all zero, this is 0.0 / 0.0 = NaN in every bin *)
FallbackPower(sig, m) ==
    IF WinSqSumIsZero(sig.n) THEN { [j \in 1..m |-> NaN] }
    ELSE [1..m -> PowerValues(sig)]

ComputePsd ==
    /\ pc = "compute_psd"
    /\ LET yd == RemoveDC(y)
       IN \/ \* from scipy.signal import welch; welch(...) returns
             /\ psd_path' = <<"welch", "returned">>
             /\ f' = WelchFreqs(yd.n, sr)
             /\ Pxx' \in [1..Len(WelchFreqs(yd.n, sr)) -> PowerValues(yd)]
          \/ \* the import or the call raises: except Exception
             /\ \E why \in {"ImportError", "welch raises"} :
                  psd_path' = <<"fallback", why>>
             /\ f' = RfftFreq(NFft(yd.n), sr)
             /\ Pxx' \in FallbackPower(yd, Len(RfftFreq(NFft(yd.n), sr)))
    /\ pc' = "summarize_bands"
    /\ UNCHANGED <<loadVars, args, band_rows, total, win, f0, cmpVars, backupVars>>

----------------------------------------------------------------------------
(* main, from summarize_bands on *)

(* band_rows, total, band_defs = summarize_bands(f, Pxx, args.air_low, args.air_high) *)
SummarizeBands ==
    /\ pc = "summarize_bands"
    /\ band_rows' = summarize_bands(f, Pxx, args[1], args[2]).rows
    /\ total' = summarize_bands(f, Pxx, args[1], args[2]).total
    /\ pc' = "estimate_fundamental"
    /\ UNCHANGED <<loadVars, specVars, args, win, f0, cmpVars, backupVars>>

(* f0 = estimate_fundamental(f, Pxx), then the report: pc = "done" *)
EstimateFundamental ==
    /\ pc = "estimate_fundamental"
    /\ f0' = estimate_fundamental(f, Pxx, win[1], win[2])
    /\ pc' = "done"
    /\ UNCHANGED <<loadVars, specVars, args, band_rows, total, win, cmpVars, backupVars>>

InitMain ==
    /\ pc = "main"
    /\ path_exists \in BOOLEAN
    /\ args \in AirEdges
    /\ attempts = <<>>
    /\ err = NoError
    /\ y = NoSignal
    /\ sr = 0
    /\ psd_path = <<"none", "">>
    /\ f = <<>>
    /\ Pxx = <<>>
    /\ band_rows = <<>>
    /\ total = Num(0)
    /\ win = <<F0Lo, F0Hi>>
    /\ f0 = <<>>
    /\ tool = "none"
    /\ files = <<>>
    /\ k = 0
    /\ labels = <<>>
    /\ missing = <<>>
    /\ plotted_any = FALSE
    /\ backup_rows = <<>>
    /\ backup_total = Num(0)

NextMain ==
    \/ CheckPath
    \/ TrySoundfile
    \/ TryScipy
    \/ TryWave
    \/ ComputePsd
    \/ SummarizeBands
    \/ EstimateFundamental

SpecMain == InitMain /\ [][NextMain]_vars

----------------------------------------------------------------------------
(* The analyzer functions called on their own, on every spectrum of the
   data model within the bounds: frequencies increasing from 0, power >= 0 *)

FreqSeqs == { SortedSeq({0} \cup S) : S \in { T \in SUBSET Grid : Cardinality(T) < MaxBins } }

InitAnalyzer ==
    /\ pc = "call"
    /\ f \in FreqSeqs
    /\ Pxx \in [1..Len(f) -> 0..MaxPow]
    /\ path_exists = TRUE
    /\ args = <<2000, 8000>>
    /\ attempts = <<>>
    /\ err = NoError
    /\ y = NoSignal
    /\ sr = 0
    /\ psd_path = <<"none", "">>
    /\ band_rows = <<>>
    /\ total = Num(0)
    /\ win = <<F0Lo, F0Hi>>
    /\ f0 = <<>>
    /\ tool = "none"
    /\ files = <<>>
    /\ k = 0
    /\ labels = <<>>
    /\ missing = <<>>
    /\ plotted_any = FALSE
    /\ backup_rows = <<>>
    /\ backup_total = Num(0)

(* summarize_bands(f, Pxx, air_lo, air_hi) *)
CallSummarizeBands ==
    /\ pc = "call"
    /\ \E a \in AirEdges :
         /\ args' = a
         /\ band_rows' = summarize_bands(f, Pxx, a[1], a[2]).rows
         /\ total' = summarize_bands(f, Pxx, a[1], a[2]).total
    /\ pc' = "summarized"
    /\ UNCHANGED <<loadVars, specVars, win, f0, cmpVars, backupVars>>

(* estimate_fundamental(f, Pxx, lo, hi) *)
CallEstimateFundamental ==
    /\ pc = "call"
    /\ \E w \in PitchWindows :
         /\ win' = w
         /\ f0' = estimate_fundamental(f, Pxx, w[1], w[2])
    /\ pc' = "estimated"
    /\ UNCHANGED <<loadVars, specVars, args, band_rows, total, cmpVars, backupVars>>

NextAnalyzer ==
    \/ CallSummarizeBands
    \/ CallEstimateFundamental

SpecAnalyzer == InitAnalyzer /\ [][NextAnalyzer]_vars

----------------------------------------------------------------------------
(* The two variants of summarize_bands called on one spectrum: the current
   one with edges of the caller's choice, then the former one *)

(* bands, total = summarize_bands(f, Pxx) of overtone_analyzer_backup.py *)
CallSummarizeBandsBackup ==
    /\ pc = "summarized"
    /\ backup_rows' = summarize_bands_backup(f, Pxx).rows
    /\ backup_total' = summarize_bands_backup(f, Pxx).total
    /\ pc' = "both"
    /\ UNCHANGED <<loadVars, specVars, args, band_rows, total, win, f0, cmpVars>>

NextVariants ==
    \/ CallSummarizeBands
    \/ CallSummarizeBandsBackup

SpecVariants == InitAnalyzer /\ [][NextVariants]_vars

----------------------------------------------------------------------------
(* compare_bands.py and compare_spectra.py *)

(* an expected input file: missing; present with no usable content (a CSV
   with no data row, a summary with no bands); present with content; present
   but not parseable *)
FileStates == {"missing", "empty", "data", "corrupt"}

NFiles == 3

InitCompare ==
    /\ tool \in {"compare_bands", "compare_spectra"}
    /\ files \in [1..NFiles -> FileStates]
    /\ pc = "gather"
    /\ k = 1
    /\ labels = <<>>
    /\ missing = <<>>
    /\ plotted_any = FALSE
    /\ backup_rows = <<>>
    /\ backup_total = Num(0)
    /\ path_exists = TRUE
    /\ args = <<2000, 8000>>
    /\ attempts = <<>>
    /\ err = NoError
    /\ y = NoSignal
    /\ sr = 0
    /\ psd_path = <<"none", "">>
    /\ f = <<>>
    /\ Pxx = <<>>
    /\ band_rows = <<>>
    /\ total = Num(0)
    /\ win = <<F0Lo, F0Hi>>
    /\ f0 = <<>>

(* compare_bands: one turn of "for label, fname in FILES"; json.load raises
   on a file that is not JSON and the script ends with that exception *)
BandsGather ==
    /\ tool = "compare_bands"
    /\ pc = "gather"
    /\ k <= NFiles
    /\ IF files[k] # "missing"
       THEN IF files[k] = "corrupt"
            THEN pc' = "crashed" /\ UNCHANGED <<labels, missing>>
            ELSE labels' = Append(labels, k) /\ UNCHANGED <<pc, missing>>
       ELSE missing' = Append(missing, k) /\ UNCHANGED <<pc, labels>>
    /\ k' = k + 1
    /\ UNCHANGED <<loadVars, specVars, args, band_rows, total, win, f0, tool, files,
                   plotted_any, backupVars>>

(* compare_bands: if missing and len(labels) == 0: raise SystemExit(...) *)
BandsFinish ==
    /\ tool = "compare_bands"
    /\ pc = "gather"
    /\ k > NFiles
    /\ pc' = IF missing # <<>> /\ Len(labels) = 0 THEN "fatal" ELSE "saved"
    /\ UNCHANGED <<loadVars, specVars, args, band_rows, total, win, f0, cmpVars, backupVars>>

(* compare_spectra: one turn of the loop; read_csv skips rows it cannot
   parse, so only a file with data rows is plotted *)
SpectraGather ==
    /\ tool = "compare_spectra"
    /\ pc = "gather"
    /\ k <= NFiles
    /\ IF files[k] # "missing"
       THEN plotted_any' = IF files[k] = "data" THEN TRUE ELSE plotted_any
       ELSE plotted_any' = plotted_any    \* print("[skip] ... not found")
    /\ k' = k + 1
    /\ UNCHANGED <<loadVars, specVars, args, band_rows, total, win, f0, tool, files,
                   labels, missing, pc, backupVars>>

(* compare_spectra: if not plotted_any: raise SystemExit(...) *)
SpectraFinish ==
    /\ tool = "compare_spectra"
    /\ pc = "gather"
    /\ k > NFiles
    /\ pc' = IF ~plotted_any THEN "fatal" ELSE "saved"
    /\ UNCHANGED <<loadVars, specVars, args, band_rows, total, win, f0, cmpVars, backupVars>>

NextCompare ==
    \/ BandsGather
    \/ BandsFinish
    \/ SpectraGather
    \/ SpectraFinish

SpecCompare == InitCompare /\ [][NextCompare]_vars

----------------------------------------------------------------------------
(* Properties of summarize_bands and band_energy *)

RECURSIVE SumPctNum(_, _)
SumPctNum(rows, j) == IF j > Len(rows) THEN 0 ELSE rows[j].pct.num + SumPctNum(rows, j + 1)

(* sum of pct <= 100.  The rows of one call share pct's denominator and
   exponent (every energy is a count of halves, divided by one total).
   The values are exact and the denominator is below 10^6, so a sum above
   100 is above 100 + 1e-6 as well: the tolerance decides nothing here. *)
SumPctAtMost100(rows) ==
    /\ \A j \in DOMAIN rows : Finite(rows[j].pct)
    /\ \A j \in DOMAIN rows : rows[j].pct.den = rows[1].pct.den /\ rows[j].pct.exp = rows[1].pct.exp
    /\ ScaledLeq(SumPctNum(rows, 1), rows[1].pct.exp, 100 * rows[1].pct.den)

(* C1: for every spectrum and every valid choice of the overtones edges
   (low < high), the pct of the rows summarize_bands returns sum to at most
   100. *)
C1_SumPctAtMost100 ==
    pc = "summarized" => SumPctAtMost100(band_rows)

(* The same sum where the overtones band overlaps neither fixed band and
   lies at or above the 20 Hz cutoff. *)
Disjoint(lo1, hi1, lo2, hi2) == hi1 <= lo2 \/ hi2 <= lo1

C1_DisjointBandsSumAtMost100 ==
    ( /\ pc = "summarized"
      /\ args[1] >= LowCutoff
      /\ Disjoint(args[1], args[2], BassLo, BassHi)
      /\ Disjoint(args[1], args[2], FormantLo, FormantHi) )
    => SumPctAtMost100(band_rows)

(* the samples a row's band selects, read off the spectrum *)
RowIdx(r) == BandIdx(f, r.lo_hz, r.hi_hz)

ZeroedAt(pw, i) == [pw EXCEPT ![i] = 0]

(* C2: band membership is half-open.  For two returned bands A, B with
   A.hi_hz = B.lo_hz, a sample at exactly that edge is selected for B and not
   for A, no sample is selected by both, A's energy is what it would be with
   that sample's power removed, and B's energy is not (when the sample has
   power and B holds another sample to integrate against). *)
C2_HalfOpenMembership ==
    pc = "summarized" =>
      \A a \in DOMAIN band_rows, b \in DOMAIN band_rows :
        band_rows[a].hi_hz = band_rows[b].lo_hz =>
          /\ RowIdx(band_rows[a]) \cap RowIdx(band_rows[b]) = {}
          /\ \A i \in DOMAIN f :
               f[i] = band_rows[b].lo_hz =>
                 /\ i \in RowIdx(band_rows[b])
                 /\ i \notin RowIdx(band_rows[a])
                 /\ band_rows[a].energy
                      = band_energy(f, ZeroedAt(Pxx, i), band_rows[a].lo_hz, band_rows[a].hi_hz)
                 /\ (Pxx[i] > 0 /\ Cardinality(RowIdx(band_rows[b])) >= 2)
                      => band_rows[b].energy
                           # band_energy(f, ZeroedAt(Pxx, i), band_rows[b].lo_hz, band_rows[b].hi_hz)

(* C2 witness: overtones edges 1500-8000 put the band right after Formant;
   a sample at 1500 Hz with power, Formant holding another sample with power,
   and the overtones band integrating the edge sample into a positive energy *)
C2_Witness ==
    /\ pc = "summarized"
    /\ args = <<FormantHi, 8000>>
    /\ \E i \in DOMAIN f : f[i] = FormantHi /\ Pxx[i] > 0
    /\ \E i \in DOMAIN f : f[i] = FormantLo /\ Pxx[i] > 0
    /\ band_rows[3].energy.num > 0
    /\ band_rows[2].energy.num = 0

----------------------------------------------------------------------------
(* Properties of estimate_fundamental *)

(* the samples of the pitch-search window, both ends inclusive *)
InWindow == { i \in DOMAIN f : f[i] >= win[1] /\ f[i] <= win[2] }

(* C3: when the window holds a sample and its largest power is > 0,
   estimate_fundamental returns exactly the frequency of a sample of largest
   power among those with lo <= f <= hi: a frequency of the spectrum, not an
   interpolated one. *)
C3_PeakPick ==
    (pc = "estimated" /\ InWindow # {} /\ \E i \in InWindow : Pxx[i] > 0) =>
      \E i \in InWindow :
        /\ f0 = <<f[i]>>
        /\ \A j \in InWindow : Pxx[j] <= Pxx[i]

(* C3 witness: a dominant peak at 120 Hz in [60, 300], beside a weaker
   sample at the window's upper end, gives 120 *)
C3_Witness ==
    /\ pc = "estimated"
    /\ win = <<F0Lo, F0Hi>>
    /\ f0 = <<120>>
    /\ \E j \in InWindow : f[j] = F0Hi /\ Pxx[j] > 0

(* C4: when the window holds no sample, or no power above 0, the result is
   None; and a number is returned only as the frequency of a window sample
   that has power, so no number (0, -1) ever stands for "no data". *)
C4_AbsentNotSentinel ==
    pc = "estimated" =>
      /\ (InWindow = {} \/ \A i \in InWindow : Pxx[i] <= 0) => f0 = <<>>
      /\ f0 # <<>> => \E i \in InWindow : Pxx[i] > 0 /\ f0 = <<f[i]>>

(* C4 witness: an all-zero-power spectrum with samples inside [60, 300] *)
C4_Witness ==
    /\ pc = "estimated"
    /\ win = <<F0Lo, F0Hi>>
    /\ InWindow # {}
    /\ \A i \in DOMAIN Pxx : Pxx[i] = 0
    /\ f0 = <<>>

----------------------------------------------------------------------------
(* Properties of the pipeline: main, read_audio, compute_psd *)

Analysed == pc \in {"estimate_fundamental", "done"}

(* the decoded buffer is total silence: at least one sample, all zero *)
SilentBuffer == y.n >= 1 /\ y.kind = "zero"

(* C5: summarize_bands on the spectrum of a total-silence buffer divides by
   no zero: the total is the substituted 1e-12 and every returned pct is a
   finite number (no NaN, no Inf). *)
C5_SilencePctFinite ==
    (Analysed /\ SilentBuffer) =>
      /\ total = Eps
      /\ \A j \in DOMAIN band_rows : Finite(band_rows[j].pct)

(* The same, for every silent buffer whose fallback window is not all zero
   (every length but 2), and for a 2-sample buffer whenever no band reaches
   down to the 0 Hz bin. *)
C5_SilencePctFiniteButHann2 ==
    (Analysed /\ SilentBuffer /\ (psd_path[1] = "welch" \/ y.n # 2 \/ args[1] > 0)) =>
      /\ total = Eps
      /\ \A j \in DOMAIN band_rows : Finite(band_rows[j].pct)

(* C6: read_audio tries soundfile, scipy, wave in that order; a strategy is
   tried only after every earlier one failed; the first success supplies
   (y, sr) and ends the chain; the call raises only when all three failed. *)
C6_OrderedFallback ==
    /\ Len(attempts) <= Len(Strategies)
    /\ \A i \in DOMAIN attempts : attempts[i].strategy = Strategies[i]
    /\ \A i \in DOMAIN attempts : i < Len(attempts) => ~attempts[i].ok
    /\ (attempts # <<>> /\ attempts[Len(attempts)].ok) =>
         /\ y = attempts[Len(attempts)].y
         /\ sr = attempts[Len(attempts)].sr
         /\ pc \in {"compute_psd", "summarize_bands", "estimate_fundamental", "done"}
    /\ pc = "raised" <=>
         (Len(attempts) = Len(Strategies) /\ \A i \in DOMAIN attempts : ~attempts[i].ok)
    /\ pc = "read_scipy" => Len(attempts) = 1
    /\ pc = "read_wave" => Len(attempts) = 2

(* C6 witness: soundfile failed, scipy decoded, wave was never tried, and
   the analysis ran on scipy's samples *)
C6_Witness ==
    /\ pc = "done"
    /\ Len(attempts) = 2
    /\ ~attempts[1].ok
    /\ attempts[2].ok
    /\ attempts[2].strategy = "scipy"
    /\ y = attempts[2].y
    /\ y.n > 0

CausesCarried == { err.causes[j] : j \in DOMAIN err.causes }

(* C7 as stated: when all three strategies fail, the error carries the path
   and the cause of every strategy that was tried. *)
C7_ErrorCarriesEveryCause ==
    pc = "raised" =>
      /\ err.type = "RuntimeError"
      /\ err.path
      /\ \A i \in DOMAIN attempts :
           <<attempts[i].strategy, attempts[i].cause>> \in CausesCarried

(* C7, amended: when all three strategies fail, the error carries the path
   and the cause of the last strategy tried (wave) and nothing of the two
   before it. *)
C7_ErrorCarriesLastCause ==
    pc = "raised" =>
      /\ err.type = "RuntimeError"
      /\ err.path
      /\ err.causes = << <<"wave", attempts[Len(attempts)].cause>> >>

(* C7 witness: three failures with different causes, the last one reported *)
C7_Witness ==
    /\ pc = "raised"
    /\ attempts[1].cause = "ImportError"
    /\ attempts[2].cause = "DecodeError"
    /\ attempts[3].cause = "wave.Error"
    /\ err.causes = << <<"wave", "wave.Error">> >>

(* C8: a path that names no existing file ends main with the file-not-found
   exit before any decode strategy is tried; no decode is ever attempted on
   a missing file. *)
C8_MissingFileNoDecode ==
    /\ ~path_exists =>
         /\ attempts = <<>>
         /\ pc \in {"main", "exit"}
         /\ pc = "exit" => err = FileNotFound
    /\ pc = "exit" => ~path_exists

(* C8 witness: the missing file was reported and main has ended *)
C8_Witness ==
    /\ ~path_exists
    /\ pc = "exit"
    /\ err = FileNotFound
    /\ attempts = <<>>

(* C9: a decode of zero samples is caught before the spectrum estimator:
   compute_psd never runs on an empty signal and no result is produced. *)
C9_EmptySignalCaught ==
    /\ psd_path[1] # "none" => y.n > 0
    /\ pc = "done" => y.n > 0

----------------------------------------------------------------------------
(* Properties of the comparison scripts *)

(* C10: the comparison tools end with their fatal exit only when every
   expected input file is missing: when at least one exists, they do not. *)
C10_FatalOnlyWhenAllMissing ==
    pc = "fatal" => \A i \in DOMAIN files : files[i] = "missing"

(* The same for compare_bands alone. *)
C10_BandsFatalOnlyWhenAllMissing ==
    (tool = "compare_bands" /\ pc = "fatal") => \A i \in DOMAIN files : files[i] = "missing"

----------------------------------------------------------------------------
(* Properties of compute_psd *)

(* C11: the FFT fallback is used only when the Welch estimator cannot be
   imported; whenever it can be, the spectrum is the Welch estimator's
   (stated for a decoded buffer of at least one sample). *)
C11_FallbackOnlyWhenUnavailable ==
    (psd_path[1] = "fallback" /\ y.n >= 1) => psd_path[2] = "ImportError"

(* What the except clause gives: the spectrum is Welch's exactly when the
   import and the call both went through; anything raised by either lands
   in the fallback. *)
C11_FallbackOnAnyException ==
    pc \in {"summarize_bands", "estimate_fundamental", "done"} =>
      \/ psd_path = <<"welch", "returned">> /\ f = WelchFreqs(y.n, sr)
      \/ psd_path[1] = "fallback" /\ f = RfftFreq(NFft(y.n), sr)

----------------------------------------------------------------------------
(* The two variants of the band-energy logic *)

(* C12: for every spectrum, the current summarize_bands called with
   overtones edges 3000 and 8000 returns the same ordered rows (band name,
   lo_hz, hi_hz, energy, pct) and the same total as the former fixed-edge
   summarize_bands. *)
C12_VariantsAgreeAt3000_8000 ==
    (pc = "both" /\ args = <<3000, 8000>>) =>
      /\ Len(band_rows) = Len(backup_rows)
      /\ \A j \in DOMAIN band_rows :
           /\ band_rows[j].band = backup_rows[j].band
           /\ band_rows[j].lo_hz = backup_rows[j].lo_hz
           /\ band_rows[j].hi_hz = backup_rows[j].hi_hz
           /\ band_rows[j].energy = backup_rows[j].energy
           /\ band_rows[j].pct = backup_rows[j].pct
      /\ total = backup_total

(* C12 witness: both variants ran, the current one with edges 3000 and
   8000, on a spectrum with power inside 3-8 kHz and below it: the
   overtones row has energy, and a pct above 0 and below 100 *)
C12_Witness ==
    /\ pc = "both"
    /\ args = <<3000, 8000>>
    /\ band_rows[3].energy.num > 0
    /\ backup_rows[3].pct.num > 0
    /\ backup_rows[3].pct.exp = 0
    /\ backup_rows[3].pct.num < 100 * backup_rows[3].pct.den

(* With the current default edges the variants differ in the overtones row
   (the label and lo_hz at least). *)
C12_VariantsAgreeAtDefault ==
    (pc = "both" /\ args = <<2000, 8000>>) => band_rows = backup_rows

====
